---- MODULE Spec2Model ----
(***************************************************************************)
(* A model of YARPC: the client (Call, Client, send, receive,              *)
(* terminateCalls, Close), the gob codec it writes through, and the        *)
(* server's per-connection request loop.                                   *)
(*                                                                         *)
(* Spec        one Client with NCallers submitters (each runs Client.Call  *)
(*             once), the receive goroutine, NClosers tasks that run       *)
(*             Client.Close, and a peer that writes response frames.       *)
(* SpecServer  one connection of the Server: serveCodec's loop, the        *)
(*             handleRequest goroutines it starts (at most MaxRequests),   *)
(*             and a peer that writes request frames.                      *)
(* SpecFair      Spec with weak fairness of the client's goroutines.       *)
(* SpecRegister  NRegistrars concurrent calls of Server.Register.          *)
(* SpecSides     Spec or SpecServer: one end of a connection at a time.    *)
(***************************************************************************)
EXTENDS Integers, Sequences, FiniteSets, TLC

----------------------------------------------------------------------------
(* Bounds of the model *)

NCallers == 2
NClosers == 2
MaxFrames == 2
MaxRequests == 3
NRegistrars == 3

Callers == 1..NCallers

----------------------------------------------------------------------------
(* Values *)

\* A Go string is the sequence of its pieces, "" the empty one; an error is
\* nil or made from its message.
EmptyString == <<>>
Nil == <<"nil">>
NewError(msg) == <<"error">> \o msg
ErrorString(err) == Tail(err)

ErrShutdown == NewError(<<"conection is shut down">>)
ErrGobEncode == NewError(<<"gob: type not supported">>)
ErrBufio == NewError(<<"write: use of closed network connection">>)
ErrRead == NewError(<<"EOF">>)
ErrGobDecode == NewError(<<"gob: type mismatch">>)
ErrGobUnassignable == NewError(<<"gob: DecodeValue of unassignable value">>)
ErrConnClosed == NewError(<<"close: use of closed network connection">>)
HandlerMsg == <<"handler error">>
HandlerVerbMsg == <<"bad value ", "%d">>

\* owners of a mutex: nobody, a submitter in send, the receive goroutine
Free == <<>>
Sender(c) == <<"send", c>>
RecvTask == <<"receive">>
\* a nil *Call
NoCall == 0
\* registerCall has not returned yet
NotCalled == <<"not called">>

\* values that travel as bodies
Unencodable == [t |-> "chan", n |-> <<>>]
EmptyReply == [t |-> "", n |-> <<>>]
invalidRequest == [t |-> "struct{}", n |-> <<>>]

\* capacity of the channel Client.Go makes when done is nil
DoneCap == 10

HeaderUnit(h) == [kind |-> "H", ServiceMethod |-> h.ServiceMethod, Seq |-> h.Seq, Error |-> h.Error]
BodyUnit(v) == [kind |-> "B", val |-> v]

ZeroHeader == [ServiceMethod |-> EmptyString, Seq |-> 0, Error |-> EmptyString]
ZeroCall == [Seq |-> 0, ServiceMethod |-> EmptyString, Args |-> EmptyReply, Reply |-> EmptyReply, Error |-> Nil]

\* the two calls of main, and one more of the same kind per further caller
MethodOf(c) == IF c % 2 = 1 THEN <<"Foo", ".", "Sum">> ELSE <<"Foo", ".", "Uppercase">>
ArgsOf(c) == [t |-> "args", n |-> <<c>>]

----------------------------------------------------------------------------
(* Maps (Go map[uint64]*Call) *)

EmptyMap == [k \in {} |-> 0]
MapPut(m, k, v) == [x \in (DOMAIN m) \cup {k} |-> IF x = k THEN v ELSE m[x]]
MapDelete_Noop(m, k) == m
MapDelete(m, k) == [x \in (DOMAIN m) \ {k} |-> m[x]]
MapGet(m, k) == IF k \in DOMAIN m THEN m[k] ELSE NoCall

----------------------------------------------------------------------------
(* GobCodec: a codec is [buf, bufErr, closed, closeCalls].  buf is the     *)
(* bufio.Writer's content, bufErr its sticky error, closed the conn's      *)
(* state, closeCalls who called GobCodec.Close.                            *)

NewGobCodec == [buf |-> <<>>, bufErr |-> FALSE, closed |-> FALSE, closeCalls |-> <<>>]

\* enc.Encode(v) into the bufio.Writer: fails on the writer's sticky error
\* and on a value gob cannot encode
GobEncode(cc, unit, encodable) ==
    IF ~encodable THEN [cc |-> cc, err |-> ErrGobEncode]
    ELSE IF cc.bufErr THEN [cc |-> cc, err |-> ErrBufio]
    ELSE [cc |-> [cc EXCEPT !.buf = Append(@, unit)], err |-> Nil]

\* GobCodec.Close: conn.Close()
GobClose(cc, who) == [cc EXCEPT !.closed = TRUE, !.closeCalls = Append(@, who)]
GobCloseResult(cc) == IF cc.closed THEN ErrConnClosed ELSE Nil

\* buf.Flush(): its error is dropped by Write, and stays in the writer
GobFlushed(cc, connOk) ==
    IF cc.bufErr \/ cc.buf = <<>> THEN cc
    ELSE IF connOk THEN [cc EXCEPT !.buf = <<>>]
    ELSE [cc EXCEPT !.bufErr = TRUE]
GobFlushOut(cc, wire, connOk) ==
    IF ~cc.bufErr /\ connOk THEN wire \o cc.buf ELSE wire

\* the deferred function of GobCodec.Write
GobWriteDefer(cc, err, connOk) ==
    LET f == GobFlushed(cc, connOk)
    IN  IF err # Nil THEN GobClose(f, "GobCodec.Write") ELSE f

\* dec.Decode(h): a unit that is not a Header does not decode into one
GobDecodeHeader(unit) ==
    IF unit.kind = "H"
    THEN [h |-> [ServiceMethod |-> unit.ServiceMethod, Seq |-> unit.Seq, Error |-> unit.Error], err |-> Nil]
    ELSE [h |-> ZeroHeader, err |-> ErrGobDecode]

\* a variant of ReadOutcomes in which closing the conn here fails no read
ReadOutcomes_CloseIgnored(stream, localClosed, peerDone) ==
    (IF stream # <<>> THEN {"unit"} ELSE {})
    \cup (IF peerDone /\ stream = <<>> THEN {"fail"} ELSE {})

\* what a read on the conn can do: deliver the next unit, fail, or (neither) block
ReadOutcomes(stream, localClosed, peerDone) ==
    (IF stream # <<>> THEN {"unit"} ELSE {})
    \cup (IF localClosed \/ (peerDone /\ stream = <<>>) THEN {"fail"} ELSE {})

----------------------------------------------------------------------------
VARIABLES
    call,       \* the Call of each submitter
    Done,       \* each Call's Done channel: the calls buffered in it
    seq, pending, closing, shutdown,
    mu, sending, header,
    cc,         \* the client's codec
    tx,         \* units the client has written to the connection
    rx,         \* units the peer has written and the client has not read
    frames, peerBody, peerClosed,   \* the peer: frames begun, the body it owes, stopped
    cpc, regErr, werr,      \* per submitter: position, registerCall's err, Write's err
    rpc, rh, rcall, rerr, termLeft,  \* the receive goroutine
    atFailure,  \* the pending table when the receive loop stopped
    closeRet,   \* what the Close calls returned, in the order they held client.mu
    sin,        \* server side: units the requesting peer has written and serveCodec has not read
    nreq, sinBody, sinClosed,   \* the requesting peer: requests begun, the body it owes, stopped
    optSent,    \* the requesting peer has written its preamble
    tpc,        \* position of serveCodec's loop (task 0) and of each handleRequest goroutine
    th, targv, tbody, twerr,    \* per task: req.h, req.argv, the body it sends, Write's err
    spawned, srvErr,            \* handlers started; readRequest's err when the loop broke
    wg, srvSending,             \* serveCodec's WaitGroup and its sending mutex
    scc,        \* the server's codec
    sout,       \* units the server has written to the connection
    regMap,     \* Server.serviceMap as the Register calls fill it
    regPc, regSvc, regRet   \* per Register call: position, the service it built, its result

clientVars == <<call, Done, seq, pending, closing, shutdown, mu, sending, header,
                cc, tx, rx, frames, peerBody, peerClosed, cpc, regErr, werr,
                rpc, rh, rcall, rerr, termLeft, atFailure, closeRet>>

serverVars == <<sin, nreq, sinBody, sinClosed, optSent, tpc, th, targv, tbody, twerr, spawned, srvErr,
                wg, srvSending, scc, sout>>

registerVars == <<regMap, regPc, regSvc, regRet>>

vars == <<clientVars, serverVars, registerVars>>

----------------------------------------------------------------------------
(* Client *)

\* newClientCodec
InitClient ==
    /\ call = [c \in Callers |-> ZeroCall]
    /\ Done = [c \in Callers |-> <<>>]
    /\ seq = 1
    /\ pending = EmptyMap
    /\ closing = FALSE
    /\ shutdown = FALSE
    /\ mu = Free
    /\ sending = Free
    /\ header = ZeroHeader
    /\ cc = NewGobCodec
    /\ tx = <<>>
    /\ rx = <<>>
    /\ frames = 0
    /\ peerBody = <<>>
    /\ peerClosed = FALSE
    /\ cpc = [c \in Callers |-> "start"]
    /\ regErr = [c \in Callers |-> NotCalled]
    /\ werr = [c \in Callers |-> Nil]
    /\ rpc = "readHeader"
    /\ rh = ZeroHeader
    /\ rcall = NoCall
    /\ rerr = Nil
    /\ termLeft = {}
    /\ atFailure = {}
    /\ closeRet = <<>>

\* a variant of CanLock that excludes nobody
CanLock_Always(m) == TRUE

\* sync.Mutex.Lock returns when nobody holds the mutex
CanLock(m) == m = Free

\* Call.done: call.Done <- call
done(ch, c) == Append(ch, c)
CanSend(ch) == Len(ch) < DoneCap

\* variants of the definitions below, for the sensitivity checks of the claims
RegisterRefused_ClosingOnly == closing
NextSeq_Same(s) == s

\* registerCall's test and its counter
RegisterRefused == closing \/ shutdown
NextSeq(s) == s + 1

\* what a submitter may pass as args: a value gob encodes, or one it cannot
ArgChoices(c) == {ArgsOf(c), Unencodable}

\* a variant of SendLock that does not wait for client.sending
SendLock_Unguarded(c) ==
    /\ cpc[c] = "start"
    /\ IF c = 1 THEN TRUE ELSE cpc[c - 1] # "start"
    /\ \E a \in ArgChoices(c) :
         call' = [call EXCEPT ![c] = [ZeroCall EXCEPT !.ServiceMethod = MethodOf(c), !.Args = a]]
    /\ sending' = Sender(c)
    /\ cpc' = [cpc EXCEPT ![c] = "register"]
    /\ UNCHANGED <<Done, seq, pending, closing, shutdown, mu, header, cc, tx, rx, frames, peerBody,
                   peerClosed, regErr, werr, rpc, rh, rcall, rerr, termLeft, atFailure, closeRet,
                   serverVars, registerVars>>

\* Client.Go(serviceMethod, args, reply, nil) -> Client.send, up to client.sending.Lock().
\* The submitters are numbered in the order they enter send.
SendLock(c) ==
    /\ cpc[c] = "start"
    /\ IF c = 1 THEN TRUE ELSE cpc[c - 1] # "start"
    /\ CanLock(sending)
    /\ \E a \in ArgChoices(c) :
         call' = [call EXCEPT ![c] = [ZeroCall EXCEPT !.ServiceMethod = MethodOf(c), !.Args = a]]
    /\ sending' = Sender(c)
    /\ cpc' = [cpc EXCEPT ![c] = "register"]
    /\ UNCHANGED <<Done, seq, pending, closing, shutdown, mu, header, cc, tx, rx, frames, peerBody,
                   peerClosed, regErr, werr, rpc, rh, rcall, rerr, termLeft, atFailure, closeRet,
                   serverVars, registerVars>>

\* client.registerCall(call), and send's err branch up to call.done()
SendRegister(c) ==
    /\ cpc[c] = "register"
    /\ CanLock(mu)
    /\ IF RegisterRefused
       THEN /\ regErr' = [regErr EXCEPT ![c] = ErrShutdown]
            /\ call' = [call EXCEPT ![c].Error = ErrShutdown]
            /\ cpc' = [cpc EXCEPT ![c] = "done"]
            /\ UNCHANGED <<seq, pending>>
       ELSE /\ regErr' = [regErr EXCEPT ![c] = Nil]
            /\ call' = [call EXCEPT ![c].Seq = seq]
            /\ pending' = MapPut(pending, seq, c)
            /\ seq' = NextSeq(seq)
            /\ cpc' = [cpc EXCEPT ![c] = "header"]
    /\ UNCHANGED <<Done, closing, shutdown, mu, sending, header, cc, tx, rx, frames, peerBody,
                   peerClosed, werr, rpc, rh, rcall, rerr, termLeft, atFailure, closeRet,
                   serverVars, registerVars>>

\* send: the three assignments to client.header
SendHeader(c) ==
    /\ cpc[c] = "header"
    /\ header' = [ServiceMethod |-> call[c].ServiceMethod, Seq |-> call[c].Seq, Error |-> EmptyString]
    /\ cpc' = [cpc EXCEPT ![c] = "encHeader"]
    /\ UNCHANGED <<call, Done, seq, pending, closing, shutdown, mu, sending, cc, tx, rx, frames,
                   peerBody, peerClosed, regErr, werr, rpc, rh, rcall, rerr, termLeft, atFailure,
                   closeRet, serverVars, registerVars>>

\* GobCodec.Write: c.enc.Encode(h)
WriteEncodeHeader(c) ==
    /\ cpc[c] = "encHeader"
    /\ LET r == GobEncode(cc, HeaderUnit(header), TRUE)
       IN  /\ cc' = r.cc
           /\ werr' = [werr EXCEPT ![c] = r.err]
           /\ cpc' = [cpc EXCEPT ![c] = IF r.err = Nil THEN "encBody" ELSE "flush"]
    /\ UNCHANGED <<call, Done, seq, pending, closing, shutdown, mu, sending, header, tx, rx,
                   frames, peerBody, peerClosed, regErr, rpc, rh, rcall, rerr, termLeft, atFailure,
                   closeRet, serverVars, registerVars>>

\* GobCodec.Write: c.enc.Encode(body)
WriteEncodeBody(c) ==
    /\ cpc[c] = "encBody"
    /\ LET r == GobEncode(cc, BodyUnit(call[c].Args), call[c].Args # Unencodable)
       IN  /\ cc' = r.cc
           /\ werr' = [werr EXCEPT ![c] = r.err]
    /\ cpc' = [cpc EXCEPT ![c] = "flush"]
    /\ UNCHANGED <<call, Done, seq, pending, closing, shutdown, mu, sending, header, tx, rx,
                   frames, peerBody, peerClosed, regErr, rpc, rh, rcall, rerr, termLeft, atFailure,
                   closeRet, serverVars, registerVars>>

\* whether conn.Write can succeed: not on a conn closed here; on one the peer
\* has closed it may or may not
ConnOkChoices(localClosed, peerDone) ==
    IF localClosed THEN {FALSE} ELSE IF peerDone THEN {TRUE, FALSE} ELSE {TRUE}

\* GobCodec.Write's deferred function, and Write's return to send
WriteFlush(c) ==
    /\ cpc[c] = "flush"
    /\ \E ok \in ConnOkChoices(cc.closed, peerClosed) :
         /\ cc' = GobWriteDefer(cc, werr[c], ok)
         /\ tx' = GobFlushOut(cc, tx, ok)
    /\ cpc' = [cpc EXCEPT ![c] = IF werr[c] = Nil THEN "unlock" ELSE "removeCall"]
    /\ UNCHANGED <<call, Done, seq, pending, closing, shutdown, mu, sending, header, rx, frames,
                   peerBody, peerClosed, regErr, werr, rpc, rh, rcall, rerr, termLeft, atFailure,
                   closeRet, serverVars, registerVars>>

\* variants of removeCall: one takes the oldest pending call whatever the seq,
\* one leaves the entry in the table
removeCall_Oldest(p, s) ==
    IF DOMAIN p = {} THEN [call |-> NoCall, pending |-> p]
    ELSE LET k == CHOOSE x \in DOMAIN p : \A y \in DOMAIN p : x <= y
         IN  [call |-> p[k], pending |-> MapDelete(p, k)]
removeCall_Keeps(p, s) == [call |-> MapGet(p, s), pending |-> p]
removeCall_Misses(p, s) == [call |-> NoCall, pending |-> MapDelete(p, s)]

\* client.removeCall(seq)
removeCall(p, s) == [call |-> MapGet(p, s), pending |-> MapDelete(p, s)]

\* send after a failed Write: removeCall, and call.Error = err when it was there
SendRemoveCall(c) ==
    /\ cpc[c] = "removeCall"
    /\ CanLock(mu)
    /\ LET r == removeCall(pending, call[c].Seq)
       IN  /\ pending' = r.pending
           /\ IF r.call # NoCall
              THEN /\ call' = [call EXCEPT ![r.call].Error = werr[c]]
                   /\ cpc' = [cpc EXCEPT ![c] = "done"]
              ELSE /\ cpc' = [cpc EXCEPT ![c] = "unlock"]
                   /\ UNCHANGED call
    /\ UNCHANGED <<Done, seq, closing, shutdown, mu, sending, header, cc, tx, rx, frames, peerBody,
                   peerClosed, regErr, werr, rpc, rh, rcall, rerr, termLeft, atFailure, closeRet,
                   serverVars, registerVars>>

\* send: call.done(), on the refused path and on the failed Write path
SendDone(c) ==
    /\ cpc[c] = "done"
    /\ CanSend(Done[c])
    /\ Done' = [Done EXCEPT ![c] = done(@, c)]
    /\ cpc' = [cpc EXCEPT ![c] = "unlock"]
    /\ UNCHANGED <<call, seq, pending, closing, shutdown, mu, sending, header, cc, tx, rx, frames,
                   peerBody, peerClosed, regErr, werr, rpc, rh, rcall, rerr, termLeft, atFailure,
                   closeRet, serverVars, registerVars>>

\* send: the deferred client.sending.Unlock()
SendUnlock(c) ==
    /\ cpc[c] = "unlock"
    /\ sending' = Free
    /\ cpc' = [cpc EXCEPT ![c] = "returned"]
    /\ UNCHANGED <<call, Done, seq, pending, closing, shutdown, mu, header, cc, tx, rx, frames,
                   peerBody, peerClosed, regErr, werr, rpc, rh, rcall, rerr, termLeft, atFailure,
                   closeRet, serverVars, registerVars>>

\* dec.Decode(body): nil discards the next value; a slot takes a body unit
GobDecodeBody(unit, slot) ==
    IF slot = Nil THEN [val |-> EmptyReply, err |-> Nil]
    ELSE IF unit.kind = "B" THEN [val |-> unit.val, err |-> Nil]
    ELSE [val |-> EmptyReply, err |-> ErrGobDecode]

\* fmt.Sprintf(format) without operands: a verb has no operand to print,
\* "%%" prints a percent sign, a lone "%" at the end is no verb
Verbs == {"%d", "%s", "%v"}
Missing(verb) == CASE verb = "%d" -> "%!d(MISSING)"
                   [] verb = "%s" -> "%!s(MISSING)"
                   [] verb = "%v" -> "%!v(MISSING)"
Sprintf(format) ==
    [i \in 1..Len(format) |->
        IF format[i] \in Verbs THEN Missing(format[i])
        ELSE IF format[i] = "%%" THEN "%"
        ELSE IF format[i] = "%" THEN "%!(NOVERB)"
        ELSE format[i]]

\* fmt.Errorf(h.Error): the message is the format string
Errorf(format) == NewError(Sprintf(format))

\* errors.New("reading body " + err.Error())
ReadingBody(err) == NewError(<<"reading body ">> \o ErrorString(err))

PendingCalls == {pending[s] : s \in DOMAIN pending}

\* a variant of the loop's test that goes on after an error
LoopPc_Continues(err) == "readHeader"

\* receive: the test of "for err == nil"
LoopPc(err) == IF err = Nil THEN "readHeader" ELSE "terminate"
Snapshot(err) == IF err = Nil THEN atFailure ELSE PendingCalls

\* receive: client.cc.ReadHeader(&h)
RecvReadHeader ==
    /\ rpc = "readHeader"
    /\ \E o \in ReadOutcomes(rx, cc.closed, peerClosed) :
         IF o = "unit"
         THEN LET d == GobDecodeHeader(Head(rx))
              IN  /\ rx' = Tail(rx)
                  /\ rh' = d.h
                  /\ rerr' = d.err
                  /\ rpc' = IF d.err = Nil THEN "removeCall" ELSE "terminate"
                  /\ atFailure' = Snapshot(d.err)
         ELSE /\ rerr' = ErrRead
              /\ rpc' = "terminate"
              /\ atFailure' = Snapshot(ErrRead)
              /\ UNCHANGED <<rx, rh>>
    /\ UNCHANGED <<call, Done, seq, pending, closing, shutdown, mu, sending, header, cc, tx,
                   frames, peerBody, peerClosed, cpc, regErr, werr, rcall, termLeft, closeRet,
                   serverVars, registerVars>>

\* receive: call := client.removeCall(h.Seq), and call.Error = fmt.Errorf(h.Error)
RecvRemoveCall ==
    /\ rpc = "removeCall"
    /\ CanLock(mu)
    /\ LET r == removeCall(pending, rh.Seq)
       IN  /\ rcall' = r.call
           /\ pending' = r.pending
           /\ call' = IF r.call # NoCall /\ rh.Error # EmptyString
                      THEN [call EXCEPT ![r.call].Error = Errorf(rh.Error)]
                      ELSE call
    /\ rpc' = "readBody"
    /\ UNCHANGED <<Done, seq, closing, shutdown, mu, sending, header, cc, tx, rx, frames, peerBody,
                   peerClosed, cpc, regErr, werr, rh, rerr, termLeft, atFailure, closeRet,
                   serverVars, registerVars>>

\* the slot receive hands to ReadBody: nil, or call.Reply
BodySlot == IF rcall = NoCall \/ rh.Error # EmptyString THEN Nil ELSE <<"call.Reply">>

\* receive: the three ReadBody calls of the switch
RecvReadBody ==
    /\ rpc = "readBody"
    /\ \E o \in ReadOutcomes(rx, cc.closed, peerClosed) :
         LET d == IF o = "unit" THEN GobDecodeBody(Head(rx), BodySlot)
                                ELSE [val |-> EmptyReply, err |-> ErrRead]
         IN  /\ rx' = IF o = "unit" THEN Tail(rx) ELSE rx
             /\ rerr' = d.err
             /\ call' = IF BodySlot = Nil THEN call
                        ELSE IF d.err = Nil THEN [call EXCEPT ![rcall].Reply = d.val]
                        ELSE [call EXCEPT ![rcall].Error = ReadingBody(d.err)]
             /\ rpc' = IF rcall = NoCall THEN LoopPc(d.err) ELSE "done"
             /\ rh' = IF rcall = NoCall THEN ZeroHeader ELSE rh
             /\ atFailure' = IF rcall = NoCall THEN Snapshot(d.err) ELSE atFailure
    /\ UNCHANGED <<Done, seq, pending, closing, shutdown, mu, sending, header, cc, tx, frames,
                   peerBody, peerClosed, cpc, regErr, werr, rcall, termLeft, closeRet, serverVars,
                   registerVars>>

\* receive: call.done(), then the loop's test
RecvDone ==
    /\ rpc = "done"
    /\ CanSend(Done[rcall])
    /\ Done' = [Done EXCEPT ![rcall] = done(@, rcall)]
    /\ rpc' = LoopPc(rerr)
    /\ rh' = ZeroHeader
    /\ rcall' = NoCall
    /\ atFailure' = Snapshot(rerr)
    /\ UNCHANGED <<call, seq, pending, closing, shutdown, mu, sending, header, cc, tx, rx, frames,
                   peerBody, peerClosed, cpc, regErr, werr, rerr, termLeft, closeRet, serverVars,
                   registerVars>>

\* a variant of terminateCalls that begins with client.mu.Lock()
TermLockSending_MuFirst ==
    /\ rpc = "terminate"
    /\ CanLock(mu)
    /\ mu' = RecvTask
    /\ rpc' = "termLockMu"
    /\ UNCHANGED <<call, Done, seq, pending, closing, shutdown, sending, header, cc, tx, rx,
                   frames, peerBody, peerClosed, cpc, regErr, werr, rh, rcall, rerr, termLeft,
                   atFailure, closeRet, serverVars, registerVars>>

\* terminateCalls: client.sending.Lock()
TermLockSending ==
    /\ rpc = "terminate"
    /\ CanLock(sending)
    /\ sending' = RecvTask
    /\ rpc' = "termLockMu"
    /\ UNCHANGED <<call, Done, seq, pending, closing, shutdown, mu, header, cc, tx, rx, frames,
                   peerBody, peerClosed, cpc, regErr, werr, rh, rcall, rerr, termLeft, atFailure,
                   closeRet, serverVars, registerVars>>

\* a variant of RangeOver that visits nothing
RangeOver_None(p) == {}

\* terminateCalls: the keys "for _, call := range client.pending" visits
RangeOver(p) == DOMAIN p

\* terminateCalls: client.mu.Lock(); client.shutdown = true; the range begins
TermLockMu ==
    /\ rpc = "termLockMu"
    /\ CanLock(mu)
    /\ mu' = RecvTask
    /\ shutdown' = TRUE
    /\ termLeft' = RangeOver(pending)
    /\ rpc' = "termRange"
    /\ UNCHANGED <<call, Done, seq, pending, closing, sending, header, cc, tx, rx, frames,
                   peerBody, peerClosed, cpc, regErr, werr, rh, rcall, rerr, atFailure, closeRet,
                   serverVars, registerVars>>

\* terminateCalls: one round of "for _, call := range client.pending"
TermSignal ==
    /\ rpc = "termRange"
    /\ \E s \in termLeft :
         /\ CanSend(Done[pending[s]])
         /\ call' = [call EXCEPT ![pending[s]].Error = rerr]
         /\ Done' = [Done EXCEPT ![pending[s]] = done(@, pending[s])]
         /\ termLeft' = termLeft \ {s}
    /\ UNCHANGED <<seq, pending, closing, shutdown, mu, sending, header, cc, tx, rx, frames,
                   peerBody, peerClosed, cpc, regErr, werr, rpc, rh, rcall, rerr, atFailure,
                   closeRet, serverVars, registerVars>>

\* terminateCalls: the deferred Unlocks, and receive returns
TermUnlock ==
    /\ rpc = "termRange"
    /\ termLeft = {}
    /\ mu' = Free
    /\ sending' = Free
    /\ rpc' = "exited"
    /\ UNCHANGED <<call, Done, seq, pending, closing, shutdown, header, cc, tx, rx, frames,
                   peerBody, peerClosed, cpc, regErr, werr, rh, rcall, rerr, termLeft, atFailure,
                   closeRet, serverVars, registerVars>>

\* a variant of IsAvailable that does not look at shutdown
IsAvailable_ShutdownIgnored == ~closing

\* Client.IsAvailable: what it returns once it holds client.mu
IsAvailable == ~shutdown /\ ~closing

\* variants of Close's test
CloseRefused_Never == FALSE
CloseRefused_OrShutdown == closing \/ shutdown

\* Client.Close's test
CloseRefused == closing

\* Client.Close; closeRet also keeps client.shutdown as it was then
Close ==
    /\ Len(closeRet) < NClosers
    /\ CanLock(mu)
    /\ IF CloseRefused
       THEN /\ closeRet' = Append(closeRet, [ret |-> ErrShutdown, shutdown |-> shutdown])
            /\ UNCHANGED <<closing, cc>>
       ELSE /\ closing' = TRUE
            /\ closeRet' = Append(closeRet, [ret |-> GobCloseResult(cc), shutdown |-> shutdown])
            /\ cc' = GobClose(cc, "Client.Close")
    /\ UNCHANGED <<call, Done, seq, pending, shutdown, mu, sending, header, tx, rx, frames,
                   peerBody, peerClosed, cpc, regErr, werr, rpc, rh, rcall, rerr, termLeft,
                   atFailure, serverVars, registerVars>>

----------------------------------------------------------------------------
(* The peer of the client: it writes response frames, a header unit and    *)
(* then its body unit, with any Seq and in any order, and may stop at any  *)
(* point.  A unit is written when the decoder has read all before it: the  *)
(* client cannot tell a unit that waits in the conn from one that arrives  *)
(* later.  h and call are variables of one round of receive's loop.        *)

PeerSeqs == 1..NCallers
\* the frame for Seq s carries no Error, or the message of the handler that
\* served request s
PeerErrors(s) == {EmptyString, IF s % 2 = 1 THEN HandlerMsg ELSE HandlerVerbMsg}

\* the body of a response: the reply to the request with the header's Seq, or
\* the placeholder that follows an Error
ResponseBody(h) == IF h.Error # EmptyString THEN invalidRequest ELSE [t |-> "reply", n |-> <<h.Seq>>]

PeerWriteHeader ==
    /\ ~peerClosed
    /\ rx = <<>>
    /\ peerBody = <<>>
    /\ frames < MaxFrames
    /\ \E s \in PeerSeqs : \E e \in PeerErrors(s) :
         LET h == [ServiceMethod |-> EmptyString, Seq |-> s, Error |-> e]
         IN  /\ rx' = Append(rx, HeaderUnit(h))
             /\ peerBody' = <<BodyUnit(ResponseBody(h))>>
    /\ frames' = frames + 1
    /\ UNCHANGED <<call, Done, seq, pending, closing, shutdown, mu, sending, header, cc, tx,
                   peerClosed, cpc, regErr, werr, rpc, rh, rcall, rerr, termLeft, atFailure,
                   closeRet, serverVars, registerVars>>

PeerWriteBody ==
    /\ ~peerClosed
    /\ rx = <<>>
    /\ peerBody # <<>>
    /\ rx' = Append(rx, peerBody[1])
    /\ peerBody' = <<>>
    /\ UNCHANGED <<call, Done, seq, pending, closing, shutdown, mu, sending, header, cc, tx,
                   frames, peerClosed, cpc, regErr, werr, rpc, rh, rcall, rerr, termLeft,
                   atFailure, closeRet, serverVars, registerVars>>

PeerClose ==
    /\ ~peerClosed
    /\ rx = <<>>
    /\ peerClosed' = TRUE
    /\ UNCHANGED <<call, Done, seq, pending, closing, shutdown, mu, sending, header, cc, tx, rx,
                   frames, peerBody, cpc, regErr, werr, rpc, rh, rcall, rerr, termLeft, atFailure,
                   closeRet, serverVars, registerVars>>

----------------------------------------------------------------------------
(* Server: serveCodec on one connection.  Task 0 is serveCodec's loop,     *)
(* task i >= 1 the i-th handleRequest goroutine it starts.                 *)

Tasks == 0..MaxRequests
Handlers == 1..MaxRequests
Loop == 0
Task(t) == <<"task", t>>

\* a Go value with its type, as gob carries it
Value(t, n) == [t |-> t, n |-> n]
ZeroValue(t) ==
    IF t = "Args" THEN Value(t, <<0, 0>>)
    ELSE IF t = "float32" THEN Value(t, <<0>>)
    ELSE Value(t, <<>>)
NoValue == Value("invalid", <<>>)

\* pointer types: the zero value of one is the nil pointer, which holds
\* nothing; a pointer that is not nil holds what it points to
IsPtrType(t) == t \in {"*Args"}
ElemType(t) == IF t = "*Args" THEN "Args" ELSE t
IsNil(v) == IsPtrType(v.t) /\ v.n = <<>>

\* main.go: Foo.Sum and Foo.Uppercase; a string is its character codes.
\* Scale is a method that takes its argument by pointer:
\* func (c Calc) Scale(args *Args, reply *float32) error
Sum(args) == [reply |-> Value("float32", <<args.n[1] + args.n[2]>>), err |-> Nil]
ToTitle(str) == [i \in 1..Len(str) |-> IF str[i] \in 97..122 THEN str[i] - 32 ELSE str[i]]
Uppercase(str) == [reply |-> Value("string", ToTitle(str.n)), err |-> Nil]
Scale(args) == [reply |-> Value("float32", <<args.n[1] * args.n[2]>>), err |-> Nil]

\* the serviceMap after YARPC.Register(&foo) and the Register of a Calc: what
\* registerMethods stores
NilMethod == [name |-> <<>>, ArgType |-> "", ReplyType |-> ""]
FooMethod ==
    [name \in {<<"Sum">>, <<"Uppercase">>} |->
        IF name = <<"Sum">>
        THEN [name |-> name, ArgType |-> "Args", ReplyType |-> "*float32"]
        ELSE [name |-> name, ArgType |-> "string", ReplyType |-> "*string"]]
CalcMethod ==
    [name \in {<<"Scale">>} |-> [name |-> name, ArgType |-> "*Args", ReplyType |-> "*float32"]]
serviceMap ==
    [name \in {<<"Foo">>, <<"Calc">>} |->
        [name |-> name, method |-> IF name = <<"Foo">> THEN FooMethod ELSE CalcMethod]]

\* strings.LastIndex, with Go's indices (from 0, -1 when absent)
LastIndex(s, ch) ==
    LET I == {i \in 1..Len(s) : s[i] = ch}
    IN  IF I = {} THEN -1 ELSE (CHOOSE i \in I : \A j \in I : j <= i) - 1

findService(serviceMethod) ==
    LET dot == LastIndex(serviceMethod, ".")
        serviceName == SubSeq(serviceMethod, 1, dot)
        methodName == SubSeq(serviceMethod, dot + 2, Len(serviceMethod))
    IN  IF dot < 0
        THEN [mtype |-> NilMethod,
              err |-> NewError(<<"rpc server: service/method request ill-formed: ">> \o serviceMethod)]
        ELSE IF serviceName \notin DOMAIN serviceMap
        THEN [mtype |-> NilMethod,
              err |-> NewError(<<"rpc server:can't find service ">> \o serviceName)]
        ELSE IF methodName \notin DOMAIN serviceMap[serviceName].method
        THEN [mtype |-> NilMethod,
              err |-> NewError(<<"rpc server: can't find method ">> \o methodName)]
        ELSE [mtype |-> serviceMap[serviceName].method[methodName], err |-> Nil]

\* reflect.New(t).Elem(): the zero value of t, addressable
reflectNewElem(t) == ZeroValue(t)

\* methodType.newArgv: both branches of its test of the Kind are
\* reflect.New(m.ArgType).Elem()
newArgv(m) ==
    IF IsPtrType(m.ArgType) THEN reflectNewElem(m.ArgType) ELSE reflectNewElem(m.ArgType)

\* readRequest: argvi, what ReadBody gets: argv itself when it is a pointer,
\* else the address of argv
Argvi(argv) ==
    IF IsPtrType(argv.t) THEN [isNil |-> IsNil(argv), t |-> ElemType(argv.t), argv |-> argv]
    ELSE [isNil |-> FALSE, t |-> argv.t, argv |-> argv]

\* service.call: m.method.Func.Call
serviceCall(m, argv) ==
    IF m.name = <<"Sum">> THEN Sum(argv)
    ELSE IF m.name = <<"Scale">> THEN Scale(argv)
    ELSE Uppercase(argv)

\* dec.Decode(argvi) refuses a nil pointer before it reads anything
GobUnassignable(argvi) == argvi.isNil

\* dec.Decode(argvi): a body unit of the type argvi points to fills argv
GobDecodeValue(unit, argvi) ==
    IF unit.kind = "B" /\ unit.val.t = argvi.t
    THEN [val |-> Value(argvi.argv.t, unit.val.n), err |-> Nil]
    ELSE [val |-> argvi.argv, err |-> ErrGobDecode]

\* a variant of WaitReturns that does not wait
WaitReturns_AtOnce(w) == TRUE

\* the preamble: Option, as JSON on the connection
MagicNumber == 3927900
GobType == "application/gob"
DefaultOption == [MagicNumber |-> MagicNumber, CodecType |-> GobType]
OptionUnit(opt) == [kind |-> "O", MagicNumber |-> opt.MagicNumber, CodecType |-> opt.CodecType]
GarbageUnit == [kind |-> "G"]
ZeroOption == [MagicNumber |-> 0, CodecType |-> ""]
ErrJsonDecode == NewError(<<"invalid character">>)

\* codec.NewCodecFuncMap after init()
NewCodecFuncMap == [t \in {GobType} |-> "NewGobCodec"]

\* json.NewDecoder(conn).Decode(&opt)
JsonDecodeOption(unit) ==
    IF unit.kind = "O"
    THEN [opt |-> [MagicNumber |-> unit.MagicNumber, CodecType |-> unit.CodecType], err |-> Nil]
    ELSE [opt |-> ZeroOption, err |-> ErrJsonDecode]

\* a variant of OptionRefused that does not look the codec up
OptionRefused_MagicOnly(opt) == opt.MagicNumber # MagicNumber

\* ServeConn's two tests of the decoded Option
OptionRefused(opt) ==
    opt.MagicNumber # MagicNumber \/ opt.CodecType \notin DOMAIN NewCodecFuncMap

\* wg.Wait returns when the counter is zero
WaitReturns(w) == w = 0

InitServer ==
    /\ sin = <<>>
    /\ nreq = 0
    /\ sinBody = <<>>
    /\ sinClosed = FALSE
    /\ optSent = FALSE
    /\ tpc = [t \in Tasks |-> IF t = Loop THEN "handshake" ELSE "none"]
    /\ th = [t \in Tasks |-> ZeroHeader]
    /\ targv = [t \in Tasks |-> NoValue]
    /\ tbody = [t \in Tasks |-> NoValue]
    /\ twerr = [t \in Tasks |-> Nil]
    /\ spawned = 0
    /\ srvErr = Nil
    /\ wg = 0
    /\ srvSending = Free
    /\ scc = NewGobCodec
    /\ sout = <<>>

\* ServeConn up to server.serveCodec(f(conn)): the preamble is decoded and
\* tested; on any failure ServeConn returns and its deferred conn.Close() runs.
\* The JSON decoder reads the conn in blocks: when more than the preamble has
\* arrived it may take bytes of the next unit, which the codec then never sees.
ServeConnHandshake ==
    /\ tpc[Loop] = "handshake"
    /\ \E o \in ReadOutcomes(sin, scc.closed, sinClosed) :
         LET d == IF o = "unit" THEN JsonDecodeOption(Head(sin))
                                ELSE [opt |-> ZeroOption, err |-> ErrRead]
             accepted == d.err = Nil /\ ~OptionRefused(d.opt)
         IN  /\ \E rest \in (IF o # "unit" THEN {sin}
                               ELSE IF Len(sin) > 1 THEN {Tail(sin), <<GarbageUnit>>}
                               ELSE {Tail(sin)}) : sin' = rest
             /\ tpc' = [tpc EXCEPT ![Loop] = IF accepted THEN "readHeader" ELSE "rejected"]
             /\ scc' = IF accepted THEN scc ELSE GobClose(scc, "ServeConn")
    /\ UNCHANGED <<nreq, sinBody, sinClosed, optSent, th, targv, tbody, twerr, spawned, srvErr, wg,
                   srvSending, sout, clientVars, registerVars>>

\* readRequest: readRequestHeader and findService.  A failed header read ends
\* the loop; a findService error returns req with err, the body unread.
ReadRequestHeader ==
    /\ tpc[Loop] = "readHeader"
    /\ \E o \in ReadOutcomes(sin, scc.closed, sinClosed) :
         LET d == IF o = "unit" THEN GobDecodeHeader(Head(sin))
                                ELSE [h |-> ZeroHeader, err |-> ErrRead]
             f == findService(d.h.ServiceMethod)
         IN  /\ sin' = IF o = "unit" THEN Tail(sin) ELSE sin
             /\ IF d.err # Nil
                THEN /\ srvErr' = d.err
                     /\ tpc' = [tpc EXCEPT ![Loop] = "wait"]
                     /\ UNCHANGED <<th, tbody>>
                ELSE IF f.err # Nil
                THEN /\ th' = [th EXCEPT ![Loop] = [d.h EXCEPT !.Error = ErrorString(f.err)]]
                     /\ tbody' = [tbody EXCEPT ![Loop] = invalidRequest]
                     /\ tpc' = [tpc EXCEPT ![Loop] = "lock"]
                     /\ UNCHANGED srvErr
                ELSE /\ th' = [th EXCEPT ![Loop] = d.h]
                     /\ tpc' = [tpc EXCEPT ![Loop] = "readBody"]
                     /\ UNCHANGED <<srvErr, tbody>>
    /\ UNCHANGED <<nreq, sinBody, sinClosed, optSent, targv, twerr, spawned, wg, srvSending, scc,
                   sout, clientVars, registerVars>>

\* readRequest: newArgv and cc.ReadBody(argvi); then serveCodec's error
\* response, or wg.Add(1) and go server.handleRequest
ReadRequestBody ==
    /\ tpc[Loop] = "readBody"
    /\ \E o \in IF GobUnassignable(Argvi(newArgv(findService(th[Loop].ServiceMethod).mtype)))
                THEN {"unassignable"}
                ELSE ReadOutcomes(sin, scc.closed, sinClosed) :
         LET m == findService(th[Loop].ServiceMethod).mtype
             argv == newArgv(m)
             d == IF o = "unit" THEN GobDecodeValue(Head(sin), Argvi(argv))
                  ELSE IF o = "unassignable" THEN [val |-> argv, err |-> ErrGobUnassignable]
                  ELSE [val |-> argv, err |-> ErrRead]
             hid == spawned + 1
         IN  /\ sin' = IF o = "unit" THEN Tail(sin) ELSE sin
             /\ IF d.err # Nil
                THEN /\ th' = [th EXCEPT ![Loop].Error = ErrorString(d.err)]
                     /\ tbody' = [tbody EXCEPT ![Loop] = invalidRequest]
                     /\ tpc' = [tpc EXCEPT ![Loop] = "lock"]
                     /\ UNCHANGED <<targv, wg, spawned>>
                ELSE /\ wg' = wg + 1
                     /\ spawned' = hid
                     /\ tpc' = [tpc EXCEPT ![Loop] = "readHeader", ![hid] = "call"]
                     /\ th' = [th EXCEPT ![hid] = th[Loop], ![Loop] = ZeroHeader]
                     /\ targv' = [targv EXCEPT ![hid] = d.val]
                     /\ UNCHANGED tbody
    /\ UNCHANGED <<nreq, sinBody, sinClosed, optSent, twerr, srvErr, srvSending, scc, sout,
                   clientVars, registerVars>>

\* handleRequest: req.svc.call, and the choice of what sendResponse gets
HandleRequestCall(i) ==
    /\ tpc[i] = "call"
    /\ LET r == serviceCall(findService(th[i].ServiceMethod).mtype, targv[i])
       IN  IF r.err # Nil
           THEN /\ th' = [th EXCEPT ![i].Error = ErrorString(r.err)]
                /\ tbody' = [tbody EXCEPT ![i] = invalidRequest]
           ELSE /\ tbody' = [tbody EXCEPT ![i] = r.reply]
                /\ UNCHANGED th
    /\ tpc' = [tpc EXCEPT ![i] = "lock"]
    /\ UNCHANGED <<sin, nreq, sinBody, sinClosed, optSent, targv, twerr, spawned, srvErr, wg,
                   srvSending, scc, sout, clientVars, registerVars>>

\* sendResponse: sending.Lock()
SendResponseLock(t) ==
    /\ tpc[t] = "lock"
    /\ CanLock(srvSending)
    /\ srvSending' = Task(t)
    /\ tpc' = [tpc EXCEPT ![t] = "encHeader"]
    /\ UNCHANGED <<sin, nreq, sinBody, sinClosed, optSent, th, targv, tbody, twerr, spawned,
                   srvErr, wg, scc, sout, clientVars, registerVars>>

\* sendResponse -> GobCodec.Write: c.enc.Encode(h)
SendResponseEncodeHeader(t) ==
    /\ tpc[t] = "encHeader"
    /\ LET r == GobEncode(scc, HeaderUnit(th[t]), TRUE)
       IN  /\ scc' = r.cc
           /\ twerr' = [twerr EXCEPT ![t] = r.err]
           /\ tpc' = [tpc EXCEPT ![t] = IF r.err = Nil THEN "encBody" ELSE "flush"]
    /\ UNCHANGED <<sin, nreq, sinBody, sinClosed, optSent, th, targv, tbody, spawned, srvErr, wg,
                   srvSending, sout, clientVars, registerVars>>

\* sendResponse -> GobCodec.Write: c.enc.Encode(body)
SendResponseEncodeBody(t) ==
    /\ tpc[t] = "encBody"
    /\ LET r == GobEncode(scc, BodyUnit(tbody[t]), TRUE)
       IN  /\ scc' = r.cc
           /\ twerr' = [twerr EXCEPT ![t] = r.err]
    /\ tpc' = [tpc EXCEPT ![t] = "flush"]
    /\ UNCHANGED <<sin, nreq, sinBody, sinClosed, optSent, th, targv, tbody, spawned, srvErr, wg,
                   srvSending, sout, clientVars, registerVars>>

\* sendResponse -> GobCodec.Write's deferred function
SendResponseFlush(t) ==
    /\ tpc[t] = "flush"
    /\ \E ok \in ConnOkChoices(scc.closed, sinClosed) :
         /\ scc' = GobWriteDefer(scc, twerr[t], ok)
         /\ sout' = GobFlushOut(scc, sout, ok)
    /\ tpc' = [tpc EXCEPT ![t] = "unlock"]
    /\ UNCHANGED <<sin, nreq, sinBody, sinClosed, optSent, th, targv, tbody, twerr, spawned,
                   srvErr, wg, srvSending, clientVars, registerVars>>

\* sendResponse: the deferred sending.Unlock(); the loop continues, a handler
\* goes on to its deferred wg.Done()
SendResponseUnlock(t) ==
    /\ tpc[t] = "unlock"
    /\ srvSending' = Free
    /\ twerr' = [twerr EXCEPT ![t] = Nil]
    /\ tpc' = [tpc EXCEPT ![t] = IF t = Loop THEN "readHeader" ELSE "wgDone"]
    /\ th' = IF t = Loop THEN [th EXCEPT ![t] = ZeroHeader] ELSE th
    /\ tbody' = IF t = Loop THEN [tbody EXCEPT ![t] = NoValue] ELSE tbody
    /\ UNCHANGED <<sin, nreq, sinBody, sinClosed, optSent, targv, spawned, srvErr, wg, scc, sout,
                   clientVars, registerVars>>

\* handleRequest: the deferred wg.Done()
HandleRequestDone(i) ==
    /\ tpc[i] = "wgDone"
    /\ wg' = wg - 1
    /\ tpc' = [tpc EXCEPT ![i] = "finished"]
    /\ UNCHANGED <<sin, nreq, sinBody, sinClosed, optSent, th, targv, tbody, twerr, spawned,
                   srvErr, srvSending, scc, sout, clientVars, registerVars>>

\* serveCodec after the loop: wg.Wait() and cc.Close()
ServeCodecClose ==
    /\ tpc[Loop] = "wait"
    /\ WaitReturns(wg)
    /\ scc' = GobClose(scc, "serveCodec")
    /\ tpc' = [tpc EXCEPT ![Loop] = "returned"]
    /\ UNCHANGED <<sin, nreq, sinBody, sinClosed, optSent, th, targv, tbody, twerr, spawned,
                   srvErr, wg, srvSending, sout, clientVars, registerVars>>

\* ServeConn after serveCodec has returned: the deferred conn.Close()
ServeConnReturn ==
    /\ tpc[Loop] = "returned"
    /\ scc' = GobClose(scc, "ServeConn")
    /\ tpc' = [tpc EXCEPT ![Loop] = "connClosed"]
    /\ UNCHANGED <<sin, nreq, sinBody, sinClosed, optSent, th, targv, tbody, twerr, spawned,
                   srvErr, wg, srvSending, sout, clientVars, registerVars>>

----------------------------------------------------------------------------
(* The peer of the server: it writes request frames, a header unit and     *)
(* then its body unit, with Seq 1, 2, ..., and may stop at any point.  As  *)
(* on the client side a unit is written when all before it has been read.  *)

\* the n-th request names the method main's n-th call names, or Calc's
\* method, or a method Foo does not have, or a service that is not registered,
\* or it has no dot
RequestMethods(n) ==
    {MethodOf(n), <<"Calc", ".", "Scale">>, <<"Foo", ".", "Nope">>, <<"Bar", ".", "Sum">>,
     <<"FooSum">>}
ArgsValue(n) == Value("Args", <<n, 10>>)
StringValue(n) == Value("string", <<104, 96 + n>>)
RequestBodies(n) == {ArgsValue(n), StringValue(n)}

\* what a peer may write first: a preamble the server accepts, one with
\* another magic number, one that names a codec nobody registered, or no
\* preamble at all
OptionChoices ==
    {OptionUnit(DefaultOption),
     OptionUnit([DefaultOption EXCEPT !.MagicNumber = 0]),
     OptionUnit([DefaultOption EXCEPT !.CodecType = "application/json"]),
     GarbageUnit}

RequestWriteOption ==
    /\ ~sinClosed
    /\ ~optSent
    /\ \E u \in OptionChoices : sin' = <<u>>
    /\ optSent' = TRUE
    /\ UNCHANGED <<nreq, sinBody, sinClosed, tpc, th, targv, tbody, twerr, spawned, srvErr, wg,
                   srvSending, scc, sout, clientVars, registerVars>>

\* the first request may follow the preamble before the server has read it
RequestWriteHeader ==
    /\ ~sinClosed
    /\ optSent
    /\ sin = <<>> \/ (nreq = 0 /\ tpc[Loop] = "handshake" /\ Len(sin) = 1)
    /\ sinBody = <<>>
    /\ nreq < MaxRequests
    /\ \E sm \in RequestMethods(nreq + 1), b \in RequestBodies(nreq + 1) :
         /\ sin' = Append(sin, HeaderUnit([ServiceMethod |-> sm, Seq |-> nreq + 1,
                                            Error |-> EmptyString]))
         /\ sinBody' = <<BodyUnit(b)>>
    /\ nreq' = nreq + 1
    /\ UNCHANGED <<sinClosed, optSent, tpc, th, targv, tbody, twerr, spawned, srvErr, wg,
                   srvSending, scc, sout, clientVars, registerVars>>

RequestWriteBody ==
    /\ ~sinClosed
    /\ sin = <<>>
    /\ sinBody # <<>>
    /\ sin' = <<sinBody[1]>>
    /\ sinBody' = <<>>
    /\ UNCHANGED <<nreq, sinClosed, optSent, tpc, th, targv, tbody, twerr, spawned, srvErr, wg,
                   srvSending, scc, sout, clientVars, registerVars>>

RequestClose ==
    /\ ~sinClosed
    /\ sin = <<>>
    /\ sinClosed' = TRUE
    /\ UNCHANGED <<sin, nreq, sinBody, optSent, tpc, th, targv, tbody, twerr, spawned, srvErr, wg,
                   srvSending, scc, sout, clientVars, registerVars>>

----------------------------------------------------------------------------
(* Registration: Server.Register, newService and registerMethods, with     *)
(* NRegistrars goroutines that each register one receiver on one server.   *)
(* An identifier is its first letter followed by the rest.                 *)

Registrars == 1..NRegistrars

UpperLetters == {"A", "F", "S", "U", "V", "N", "O", "H"}
\* ast.IsExported
IsExported(name) == name # EmptyString /\ name[1] \in UpperLetters

\* reflect.Type: its Name(), PkgPath() and Kind()
Type(name, pkg, kind) == [Name |-> name, PkgPath |-> pkg, Kind |-> kind]
PtrTo(t) == Type(EmptyString, "", "ptr")
TArgs == Type(<<"A", "rgs">>, "main", "struct")
TSecret == Type(<<"s", "ecret">>, "main", "struct")
TFloat32 == Type(<<"f", "loat32">>, "", "float32")
TString == Type(<<"s", "tring">>, "", "string")
TInt == Type(<<"i", "nt">>, "", "int")
TError == Type(<<"e", "rror">>, "", "interface")
TRcvr == Type(EmptyString, "", "ptr")

\* reflect.Method: its Name and the In and Out types of its Type
Method(name, in, out) == [Name |-> name, In |-> in, Out |-> out]

\* the receivers a registrar may pass: main's Foo; a type Foo of another
\* package; a type Svc whose methods meet or miss the conditions one by one
FooMethods ==
    {Method(<<"S", "um">>, <<TRcvr, TArgs, PtrTo(TFloat32)>>, <<TError>>),
     Method(<<"U", "ppercase">>, <<TRcvr, TString, PtrTo(TString)>>, <<TError>>)}
OtherFooMethods ==
    {Method(<<"S", "um">>, <<TRcvr, TInt, PtrTo(TInt)>>, <<TError>>)}
SvcMethods ==
    {Method(<<"A", "dd">>, <<TRcvr, TArgs, PtrTo(TInt)>>, <<TError>>),
     Method(<<"V", "alue">>, <<TRcvr, TInt, TInt>>, <<TError>>),
     Method(<<"N", "oErr">>, <<TRcvr, TInt, PtrTo(TInt)>>, <<TInt>>),
     Method(<<"O", "neArg">>, <<TRcvr, TInt>>, <<TError>>),
     Method(<<"H", "idden">>, <<TRcvr, TSecret, PtrTo(TInt)>>, <<TError>>)}
Receivers ==
    {[name |-> <<"F", "oo">>, pkg |-> "main", methods |-> FooMethods],
     [name |-> <<"F", "oo">>, pkg |-> "other", methods |-> OtherFooMethods],
     [name |-> <<"S", "vc">>, pkg |-> "main", methods |-> SvcMethods]}

isExportedOrBuiltinType(t) == IsExported(t.Name) \/ t.PkgPath = ""

\* the tests of registerMethods' loop body; a method that passes is stored
Registrable(method) ==
    /\ Len(method.In) = 3
    /\ Len(method.Out) = 1
    /\ method.Out[1] = TError
    /\ isExportedOrBuiltinType(method.In[2])
    /\ isExportedOrBuiltinType(method.In[3])

MethodTypeOf(method) == [method |-> method, ArgType |-> method.In[2], ReplyType |-> method.In[3]]

\* registerMethods: s.method, as the set of its (name, methodType) entries
registerMethods(methods) ==
    {[name |-> m.Name, mtype |-> MethodTypeOf(m)] : m \in {x \in methods : Registrable(x)}}

\* newService, for a receiver whose type name is exported
newService(rcvr, r) ==
    [name |-> rcvr.name, rcvr |-> [pkg |-> rcvr.pkg, by |-> r],
     method |-> registerMethods(rcvr.methods)]
NoService == [name |-> EmptyString, rcvr |-> [pkg |-> "", by |-> 0], method |-> {}]

\* a variant of LoadOrStore that stores in any case
LoadOrStore_Overwrites(m, k, v) == [m |-> MapPut(m, k, v), loaded |-> k \in DOMAIN m]

\* sync.Map.LoadOrStore
LoadOrStore(m, k, v) ==
    IF k \in DOMAIN m THEN [m |-> m, loaded |-> TRUE]
    ELSE [m |-> MapPut(m, k, v), loaded |-> FALSE]

AlreadyDefined(name) == NewError(<<"rpc: service already defined: ">> \o name)

InitRegister ==
    /\ regMap = EmptyMap
    /\ regPc = [r \in Registrars |-> "start"]
    /\ regSvc = [r \in Registrars |-> NoService]
    /\ regRet = [r \in Registrars |-> NotCalled]

\* Register: s := newService(rcvr)
RegisterNewService(r) ==
    /\ regPc[r] = "start"
    /\ \E rcvr \in Receivers : regSvc' = [regSvc EXCEPT ![r] = newService(rcvr, r)]
    /\ regPc' = [regPc EXCEPT ![r] = "loadOrStore"]
    /\ UNCHANGED <<regMap, regRet, clientVars, serverVars>>

\* Register: server.serviceMap.LoadOrStore(s.name, s), and the return
RegisterLoadOrStore(r) ==
    /\ regPc[r] = "loadOrStore"
    /\ LET l == LoadOrStore(regMap, regSvc[r].name, regSvc[r])
       IN  /\ regMap' = l.m
           /\ regRet' = [regRet EXCEPT ![r] = IF l.loaded THEN AlreadyDefined(regSvc[r].name)
                                                          ELSE Nil]
    /\ regPc' = [regPc EXCEPT ![r] = "returned"]
    /\ UNCHANGED <<regSvc, clientVars, serverVars>>

NextRegister ==
    \/ \E r \in Registrars : RegisterNewService(r)
    \/ \E r \in Registrars : RegisterLoadOrStore(r)

----------------------------------------------------------------------------
Init == InitClient /\ InitServer /\ InitRegister

Next ==
    \/ \E c \in Callers : SendLock(c)
    \/ \E c \in Callers : SendRegister(c)
    \/ \E c \in Callers : SendHeader(c)
    \/ \E c \in Callers : WriteEncodeHeader(c)
    \/ \E c \in Callers : WriteEncodeBody(c)
    \/ \E c \in Callers : WriteFlush(c)
    \/ \E c \in Callers : SendRemoveCall(c)
    \/ \E c \in Callers : SendDone(c)
    \/ \E c \in Callers : SendUnlock(c)
    \/ RecvReadHeader
    \/ RecvRemoveCall
    \/ RecvReadBody
    \/ RecvDone
    \/ TermLockSending
    \/ TermLockMu
    \/ TermSignal
    \/ TermUnlock
    \/ Close
    \/ PeerWriteHeader
    \/ PeerWriteBody
    \/ PeerClose

Spec == Init /\ [][Next]_vars

\* the goroutines of the client: those in send, and receive; the scheduler
\* runs each that can take a step
GoroutineStep ==
    \/ \E c \in Callers : SendLock(c) \/ SendRegister(c) \/ SendHeader(c) \/ WriteEncodeHeader(c)
    \/ \E c \in Callers : WriteEncodeBody(c) \/ WriteFlush(c) \/ SendRemoveCall(c)
    \/ \E c \in Callers : SendDone(c) \/ SendUnlock(c)
    \/ RecvReadHeader \/ RecvRemoveCall \/ RecvReadBody \/ RecvDone
    \/ TermLockSending \/ TermLockMu \/ TermSignal \/ TermUnlock

SpecFair == Init /\ [][Next]_vars /\ WF_vars(GoroutineStep)

NextServer ==
    \/ ServeConnHandshake
    \/ ServeConnReturn
    \/ RequestWriteOption
    \/ ReadRequestHeader
    \/ ReadRequestBody
    \/ \E i \in Handlers : HandleRequestCall(i)
    \/ \E t \in Tasks : SendResponseLock(t)
    \/ \E t \in Tasks : SendResponseEncodeHeader(t)
    \/ \E t \in Tasks : SendResponseEncodeBody(t)
    \/ \E t \in Tasks : SendResponseFlush(t)
    \/ \E t \in Tasks : SendResponseUnlock(t)
    \/ \E i \in Handlers : HandleRequestDone(i)
    \/ ServeCodecClose
    \/ RequestWriteHeader
    \/ RequestWriteBody
    \/ RequestClose

SpecServer == Init /\ [][NextServer]_vars

SpecRegister == Init /\ [][NextRegister]_vars

\* one end of a connection at a time: the client with its peer while the
\* server has not begun, or the server with its peer while the client has not
NextSides ==
    \/ InitServer /\ Next
    \/ InitClient /\ NextServer

SpecSides == Init /\ [][NextSides]_vars

----------------------------------------------------------------------------
(* Claims about the client, checked under Spec *)

Delivered(c) == Len(Done[c])
Written == tx \o cc.buf

\* C1: a call signalled on Done with no error holds, in its reply slot, the
\* body of the response frame whose Seq is the call's Seq, whatever the order
\* of the response frames; the slot is filled when the call is signalled.
C1_ReplyFromMatchingFrame ==
    \A c \in Callers :
        (Delivered(c) > 0 /\ call[c].Error = Nil)
            => call[c].Reply = ResponseBody([Seq |-> call[c].Seq, Error |-> EmptyString])

\* the response to the second call was read before the response to the first
C1_Witness ==
    \E c, d \in Callers :
        /\ call[c].Seq = 1 /\ c \in PendingCalls /\ Delivered(c) = 0
        /\ call[d].Seq = 2 /\ Delivered(d) = 1 /\ call[d].Error = Nil
        /\ call[d].Reply = [t |-> "reply", n |-> <<2>>]

\* C2: when receive has stopped on a read failure and terminateCalls has
\* returned, every call that was in the pending table when the loop stopped
\* has been signalled exactly once, with a non-nil Error.
C2_PendingAtFailureSignalledOnce ==
    rpc = "exited" =>
        \A c \in atFailure : Delivered(c) = 1 /\ call[c].Error # Nil

C2_Witness ==
    /\ rpc = "exited"
    /\ Cardinality(atFailure) >= 2
    /\ \A c \in atFailure : Delivered(c) = 1 /\ call[c].Error = ErrRead

\* C3: no Call is delivered on its Done channel more than once.
C3_SignalledAtMostOnce ==
    \A c \in Callers : Delivered(c) <= 1

\* a call signalled by send after a failed Write, and terminateCalls has run
C3_Witness ==
    /\ rpc = "exited"
    /\ \E c \in Callers :
         /\ call[c].Error = ErrGobEncode
         /\ call[c].Seq # 0
         /\ Delivered(c) = 1
         /\ c \in atFailure

\* C4: the accepted calls hold the Seqs 1, 2, ..., seq - 1, each once, so the
\* first accepted call has Seq 1, none has Seq 0 and every accepted call has a
\* Seq greater than all assigned before it.
Accepted == {c \in Callers : regErr[c] = Nil}
C4_SeqUniqueIncreasing ==
    /\ {call[c].Seq : c \in Accepted} = 1..(seq - 1)
    /\ \A c, d \in Accepted : call[c].Seq = call[d].Seq => c = d
    /\ \A c, d \in Accepted : c < d => call[c].Seq < call[d].Seq

C4_Witness ==
    /\ Cardinality(Accepted) >= 2
    /\ \E c \in Accepted : call[c].Seq = 1
    /\ \E c \in Accepted : call[c].Seq = 2

\* C5: a submission that reaches registerCall when closing or shutdown is set
\* is refused: the call completes with ErrShutdown, the pending table and the
\* seq counter stay as they were, and nothing of it is written.
C5_RefusedStep ==
    \A c \in Callers :
        (cpc[c] = "register" /\ cpc'[c] # "register" /\ (closing \/ shutdown))
            => /\ regErr'[c] = ErrShutdown
               /\ call'[c].Error = ErrShutdown
               /\ pending' = pending
               /\ seq' = seq
               /\ cc' = cc
               /\ tx' = tx
               /\ cpc'[c] = "done"
C5_Refused ==
    \A c \in Callers :
        regErr[c] = ErrShutdown
            => /\ cpc[c] \in {"done", "unlock", "returned"}
               /\ call[c].Error = ErrShutdown
               /\ call[c].Seq = 0
               /\ c \notin PendingCalls
               /\ cpc[c] # "done" => Done[c] = <<c>>
               /\ \A i \in 1..Len(Written) :
                    /\ Written[i].kind = "H" => Written[i].Seq # call[c].Seq
                    /\ Written[i].kind = "B" => Written[i].val # ArgsOf(c)
C5_RejectedWhenDown == []C5_Refused /\ [][C5_RefusedStep]_vars

C5_Witness ==
    \E c, d \in Callers :
        /\ regErr[c] = ErrShutdown /\ cpc[c] = "returned" /\ ~closing /\ shutdown
        /\ regErr[d] = ErrShutdown /\ cpc[d] = "returned"

\* C6: of the Close calls of one client only the first closes the codec;
\* every later one returns ErrShutdown and the codec is not closed again.
ClosedByClose == Len(SelectSeq(cc.closeCalls, LAMBDA w : w = "Client.Close"))
C6_OnlyFirstCloseClosesCodec ==
    /\ \A i \in 1..Len(closeRet) : (closeRet[i].ret = ErrShutdown) <=> (i > 1)
    /\ ClosedByClose = IF closeRet = <<>> THEN 0 ELSE 1

C6_Witness ==
    /\ Len(closeRet) >= 2
    /\ closeRet[2].ret = ErrShutdown
    /\ ClosedByClose = 1

\* C7 as stated: a Close called when the client is SHUTDOWN returns
\* ErrShutdown.
C7_CloseAfterShutdownReturnsErrShutdown ==
    \A i \in 1..Len(closeRet) : closeRet[i].shutdown => closeRet[i].ret = ErrShutdown

\* C7 amended: a Close called when the client is SHUTDOWN returns ErrShutdown
\* only if an earlier Close had set closing; the first Close closes the codec
\* and returns what the codec's Close returns.
C7_CloseAfterShutdownFirstCloses ==
    \A i \in 1..Len(closeRet) :
        closeRet[i].shutdown =>
            /\ (closeRet[i].ret = ErrShutdown) <=> (i > 1)
            /\ i = 1 => (closeRet[i].ret \in {Nil, ErrConnClosed} /\ closing /\ cc.closed
                         /\ ClosedByClose = 1)

C7_Witness ==
    /\ Len(closeRet) >= 1
    /\ closeRet[1].shutdown
    /\ closeRet[1].ret = Nil
    /\ rpc = "exited"

\* C12: a call that is in the pending table once Close has been called is
\* eventually signalled on Done, once, with a non-nil Error unless a response
\* that arrived resolved it with its reply.
C12_PendingSignalledAfterClose ==
    \A c \in Callers :
        (closing /\ c \in PendingCalls)
            ~> (/\ Delivered(c) = 1
                /\ \/ call[c].Error # Nil
                   \/ call[c].Reply = ResponseBody([Seq |-> call[c].Seq, Error |-> EmptyString]))

\* Close came first, the peer is still there, and terminateCalls has failed a
\* pending call with the read error
C12_Witness ==
    /\ closing /\ ~peerClosed /\ rpc = "exited"
    /\ Len(closeRet) >= 1 /\ ~closeRet[1].shutdown
    /\ \E c \in atFailure : Delivered(c) = 1 /\ call[c].Error = ErrRead

\* C13: once the receive loop has stopped on a failed read, IsAvailable comes
\* to return false; and once it returns false it returns false ever after.
C13_StaysUnavailable == ~IsAvailable => ~IsAvailable'
C13_UnavailableAfterFailure ==
    /\ (rpc = "terminate") ~> (CanLock(mu) /\ ~IsAvailable)
    /\ [][C13_StaysUnavailable]_vars

C13_Witness ==
    /\ rpc = "exited" /\ rerr = ErrRead
    /\ shutdown /\ ~closing /\ CanLock(mu) /\ ~IsAvailable

----------------------------------------------------------------------------
(* Claims about the server, checked under SpecServer *)

ServerWritten == sout \o scc.buf

DispatchErrorPrefixes ==
    {"rpc server: service/method request ill-formed: ", "rpc server:can't find service ",
     "rpc server: can't find method "}
IsDispatchError(e) == e # EmptyString /\ Head(e) \in DispatchErrorPrefixes
DispatchErrorAnswered ==
    \E i \in 1..Len(sout) : sout[i].kind = "H" /\ IsDispatchError(sout[i].Error)

\* C8: once the server has answered a request with a dispatch error, the
\* request loop keeps running with framing intact: the unit it is about to read
\* as a header is a header, and the loop has not ended on a decode error.
C8_DispatchErrorKeepsFraming ==
    DispatchErrorAnswered =>
        /\ (tpc[Loop] = "readHeader" /\ sin # <<>>) => Head(sin).kind = "H"
        /\ srvErr # ErrGobDecode

\* the body of the response with header h: the placeholder after an Error, else
\* the reply of the method to the argument the request with h.Seq carried
ArgumentOf(t, n) == IF ElemType(t) = "Args" THEN Value(t, ArgsValue(n).n) ELSE StringValue(n)
ResponseTo(h) ==
    IF h.Error # EmptyString THEN invalidRequest
    ELSE LET m == findService(h.ServiceMethod).mtype
         IN  serviceCall(m, ArgumentOf(m.ArgType, h.Seq)).reply

ClosedByServeCodec ==
    \E i \in 1..Len(scc.closeCalls) : scc.closeCalls[i] = "serveCodec"
C10_HandlersFinished ==
    ClosedByServeCodec =>
        /\ tpc[Loop] \in {"returned", "connClosed"}
        /\ wg = 0
        /\ \A h \in Handlers : tpc[h] = IF h <= spawned THEN "finished" ELSE "none"
C10_NoWriteAfterClose ==
    ClosedByServeCodec => (sout' = sout /\ scc'.buf = scc.buf)
C10_ClosedAfterHandlers == []C10_HandlersFinished /\ [][C10_NoWriteAfterClose]_vars

C10_Witness ==
    /\ ClosedByServeCodec
    /\ spawned = MaxRequests
    /\ Len(sout) = 2 * MaxRequests
    /\ srvErr = ErrRead

\* C11: a preamble with another magic number, or one that names a codec that
\* is not in NewCodecFuncMap, makes ServeConn close the connection; nothing has
\* been or will be written to it, the request loop is never entered and no
\* handler is started.
BadPreamble(unit) ==
    unit.kind = "O" /\ (unit.MagicNumber # MagicNumber \/ unit.CodecType # GobType)
C11_RejectStep ==
    (tpc[Loop] = "handshake" /\ tpc'[Loop] # "handshake" /\ sin # <<>> /\ BadPreamble(Head(sin)))
        => (tpc'[Loop] = "rejected" /\ sout' = <<>> /\ scc'.buf = <<>> /\ scc'.closed)
C11_Rejected ==
    tpc[Loop] = "rejected" =>
        /\ scc.closed
        /\ ServerWritten = <<>>
        /\ spawned = 0 /\ wg = 0
        /\ \A h \in Handlers : tpc[h] = "none"
C11_StaysRejected == tpc[Loop] = "rejected" => tpc'[Loop] = "rejected"
C11_BadPreambleClosesSilently ==
    /\ []C11_Rejected
    /\ [][C11_RejectStep]_vars
    /\ [][C11_StaysRejected]_vars

\* a preamble that names an unregistered codec was refused, with the first
\* request already waiting behind it
C11_Witness ==
    /\ tpc[Loop] = "rejected"
    /\ nreq = 1
    /\ scc.closeCalls = <<"ServeConn">>
    /\ sin # <<>>

\* C21: when readRequest reads the argument body of a request, the argv that
\* newArgv made has the method's argument type and, if that is a pointer
\* type, is not nil; the decoder gets a pointer that is not nil; and a body of
\* the argument's type that is read makes the server start the handler with
\* the decoded value.
C21_ArgvStep ==
    (tpc[Loop] = "readBody" /\ tpc'[Loop] # "readBody") =>
        LET m == findService(th[Loop].ServiceMethod).mtype
            argv == newArgv(m)
        IN  /\ argv.t = m.ArgType
            /\ IsPtrType(m.ArgType) => ~IsNil(argv)
            /\ ~Argvi(argv).isNil
            /\ (sin' # sin /\ Head(sin).kind = "B" /\ Head(sin).val.t = ElemType(m.ArgType))
                   => /\ spawned' = spawned + 1
                      /\ tpc'[spawned'] = "call"
                      /\ targv'[spawned'] = Value(m.ArgType, Head(sin).val.n)
C21_ArgvFreshAndDecoded == [][C21_ArgvStep]_vars

----------------------------------------------------------------------------
(* Claims about one round of receive's loop, checked under Spec *)

\* the three steps receive takes for a header it has read
RemoveStep == rpc = "removeCall" /\ rpc' # "removeCall"
BodyStep == rpc = "readBody" /\ rpc' # "readBody"
DoneStep == rpc = "done" /\ rpc' # "done"

\* C17: for a response header the client has read, either a pending call has
\* the header's Seq, and then that entry alone leaves pending and that call
\* alone is signalled, once; or none has, and then pending stays as it is and
\* no call is signalled.  In both cases receive reads one body: the unit that
\* follows the header, which it consumes, or nothing when the read fails.
C17_Round ==
    /\ RemoveStep =>
          /\ IF rh.Seq \in DOMAIN pending
             THEN /\ rcall' = pending[rh.Seq]
                  /\ DOMAIN pending' = DOMAIN pending \ {rh.Seq}
                  /\ \A s \in DOMAIN pending' : pending'[s] = pending[s]
             ELSE /\ rcall' = NoCall
                  /\ pending' = pending
          /\ rpc' = "readBody" /\ Done' = Done /\ rx' = rx
    /\ BodyStep =>
          /\ \/ rerr' = Nil /\ rx # <<>> /\ Head(rx).kind = "B" /\ rx' = Tail(rx)
             \/ rerr' # Nil /\ rx' = rx
          /\ pending' = pending /\ Done' = Done /\ rcall' = rcall
          /\ IF rcall = NoCall THEN call' = call /\ rpc' \in {"readHeader", "terminate"}
                               ELSE rpc' = "done"
    /\ DoneStep =>
          /\ rcall # NoCall
          /\ Done' = [Done EXCEPT ![rcall] = Append(@, rcall)]
          /\ pending' = pending /\ rx' = rx
          /\ rpc' \in {"readHeader", "terminate"}
C17_Framing ==
    /\ (rpc = "readHeader" /\ rx # <<>>) => Head(rx).kind = "H"
    /\ (rpc \in {"removeCall", "readBody"} /\ rx # <<>>) => Head(rx).kind = "B"
    /\ rpc = "done" => rcall # NoCall /\ rcall \notin PendingCalls
    /\ rpc = "readHeader" => rcall = NoCall
C17_OneCallOneBodyPerHeader == []C17_Framing /\ [][C17_Round]_vars

\* two frames have been read to the end: one resolved its call, the other
\* matched no call while a call was pending
C17_Witness ==
    /\ rpc = "readHeader" /\ rx = <<>> /\ peerBody = <<>> /\ frames = 2 /\ rerr = Nil
    /\ Cardinality({c \in Callers : Delivered(c) = 1}) = 1
    /\ \A c \in Callers : Delivered(c) = 1 => call[c].Error = Nil /\ call[c].Reply.t = "reply"
    /\ DOMAIN pending # {}

\* C18, the client's part: when the response to a pending call carries the
\* Error of a handler, the call's Error gets that string.
C18_ErrorSurfaced ==
    (RemoveStep /\ rh.Seq \in DOMAIN pending /\ rh.Error # EmptyString)
        => ErrorString(call'[pending[rh.Seq]].Error) = rh.Error
C18_HandlerErrorReachesCaller == [][C18_ErrorSurfaced]_vars

----------------------------------------------------------------------------
(* Claims about the client's two locks, checked under Spec *)

InSend(c) == cpc[c] \in {"register", "header", "encHeader", "encBody", "flush", "removeCall",
                         "done", "unlock"}

\* C19: the task that holds mu over more than one step is terminateCalls, and
\* it holds sending then; a sender is inside registerCall or removeCall only
\* while it holds sending.  A step that takes sending is taken by a task that
\* does not hold mu; a step that takes mu and keeps it is taken by the holder
\* of sending.
C19_Held ==
    /\ mu \in {Free, RecvTask}
    /\ mu = RecvTask => sending = RecvTask /\ rpc = "termRange"
    /\ \A c \in Callers : InSend(c) <=> sending = Sender(c)
    /\ rpc \in {"termLockMu", "termRange"} <=> sending = RecvTask
C19_Acquire ==
    /\ (sending' # sending /\ sending' # Free) => sending = Free /\ mu' = mu /\ mu # sending'
    /\ (mu' # mu /\ mu' # Free) => mu = Free /\ sending = mu'
C19_SendingBeforeMu == []C19_Held /\ [][C19_Acquire]_vars

\* terminateCalls holds both locks and has calls to signal while a caller
\* waits to enter send
C19_Witness ==
    /\ mu = RecvTask /\ sending = RecvTask /\ termLeft # {}
    /\ \E c \in Callers : cpc[c] = "start"

----------------------------------------------------------------------------
(* Claims about pending and the Done channels, checked under Spec *)

Signalled(c) == Len(Done'[c]) > Len(Done[c])

\* C20 as stated: at the step that delivers a call on its Done channel the
\* call is not an entry of pending, whichever path delivers it.
C20_NotPendingWhenSignalled == \A c \in Callers : Signalled(c) => c \notin PendingCalls
C20_RemovedBeforeSignalled == [][C20_NotPendingWhenSignalled]_vars

\* C20, amended: a call delivered by receive for a matching response or by
\* send is not an entry of pending at that step; a call delivered by
\* terminateCalls is an entry of pending then and stays one, and that step is
\* taken with shutdown set and both locks held.
C20_SignalStep ==
    \A c \in Callers : Signalled(c) =>
        \/ DoneStep /\ c = rcall /\ c \notin PendingCalls
        \/ cpc[c] = "done" /\ cpc'[c] = "unlock" /\ c \notin PendingCalls
        \/ /\ rpc = "termRange" /\ rpc' = "termRange"
           /\ c \in PendingCalls /\ pending' = pending
           /\ shutdown /\ mu = RecvTask /\ sending = RecvTask
           /\ call'[c].Error = rerr
C20_RemovedUnlessTerminated == [][C20_SignalStep]_vars

\* receive has exited; one call was resolved by its response and is gone
\* from pending, another was signalled by terminateCalls and is still there
C20_Witness ==
    /\ rpc = "exited"
    /\ \E c \in Callers : Delivered(c) = 1 /\ c \notin PendingCalls /\ call[c].Reply.t = "reply"
    /\ \E c \in PendingCalls : Delivered(c) = 1 /\ call[c].Error = rerr

----------------------------------------------------------------------------
(* Claims about the request frames on the wire, checked under Spec *)

\* the header send fills in for the call of submitter c
HeaderOf(c) == [ServiceMethod |-> call[c].ServiceMethod, Seq |-> call[c].Seq, Error |-> EmptyString]
\* the submitter whose call has the Seq of a header
Submitter(s) == CHOOSE c \in Callers : call[c].Seq = s
Writing(c) == cpc[c] \in {"encHeader", "encBody", "flush"}

\* the shared header is the header of the submitter that is in Write, and
\* only a submitter that holds sending assigns to it
C22_HeaderKept == \A c \in Callers : Writing(c) => header = HeaderOf(c) /\ sending = Sender(c)
C22_HeaderStep ==
    header' # header => \E c \in Callers : sending = Sender(c) /\ cpc[c] = "header"
                                            /\ header' = HeaderOf(c)
\* the request headers on the wire are headers send filled in, each of
\* another call, in increasing order of Seq
C22_SeqOrder ==
    \A i \in 1..Len(tx) : tx[i].kind = "H" =>
        /\ \E c \in Callers : tx[i] = HeaderUnit(HeaderOf(c))
        /\ \A j \in 1..(i - 1) : tx[j].kind = "H" => tx[j].Seq < tx[i].Seq

\* C22 as stated: on the wire every request header is immediately followed by
\* the args body of its own call; the shared header is not overwritten between
\* being filled and being written; the headers are in increasing Seq order.
C22_EveryHeaderHasItsBody ==
    \A i \in 1..Len(tx) :
        /\ (i % 2 = 1) <=> (tx[i].kind = "H")
        /\ tx[i].kind = "H" =>
              i < Len(tx) /\ tx[i + 1] = BodyUnit(call[Submitter(tx[i].Seq)].Args)
C22_FramesWholeAndOrdered ==
    /\ []C22_EveryHeaderHasItsBody
    /\ []C22_HeaderKept /\ [][C22_HeaderStep]_vars /\ []C22_SeqOrder

\* C22, amended: a request header on the wire is immediately followed by the
\* args body of its own call, or it is the last unit on the wire for good:
\* gob could not encode its call's args, Write flushed the header alone and
\* closed the codec.  Frames of two submitters are never interleaved, the
\* shared header is not overwritten between being filled and being written,
\* and the headers are in increasing Seq order.
C22_HeaderThenOwnBody ==
    \A i \in 1..Len(tx) :
        /\ (i % 2 = 1) <=> (tx[i].kind = "H")
        /\ (tx[i].kind = "H" /\ i < Len(tx))
               => tx[i + 1] = BodyUnit(call[Submitter(tx[i].Seq)].Args)
        /\ (tx[i].kind = "H" /\ i = Len(tx))
               => /\ call[Submitter(tx[i].Seq)].Args = Unencodable
                  /\ cc.closed
                  /\ \E k \in 1..Len(cc.closeCalls) : cc.closeCalls[k] = "GobCodec.Write"
C22_BodylessIsLast == (tx # <<>> /\ tx[Len(tx)].kind = "H") => tx' = tx
C22_FramesNotInterleaved ==
    /\ []C22_HeaderThenOwnBody /\ [][C22_BodylessIsLast]_vars
    /\ []C22_HeaderKept /\ [][C22_HeaderStep]_vars /\ []C22_SeqOrder

\* the frames of all submitters are on the wire, and the last is a header
\* whose args gob could not encode
C22_Witness ==
    /\ Len(tx) = 2 * NCallers - 1
    /\ tx[Len(tx)].kind = "H"
    /\ \A c \in Callers : cpc[c] = "returned"

----------------------------------------------------------------------------
(* Claims about registration, checked under SpecRegister *)

Returned(name) == {r \in Registrars : regPc[r] = "returned" /\ regSvc[r].name = name}
Succeeded(name) == {r \in Returned(name) : regRet[r] = Nil}
ServiceNames == {rcvr.name : rcvr \in Receivers}

\* C14: of the Register calls for one service name that have returned,
\* exactly one returned nil and the others the "already defined" error; the
\* service map holds the service of the one that succeeded, and an entry of
\* the map is never replaced.
C14_OneWinner ==
    \A name \in ServiceNames :
        Returned(name) # {} =>
            /\ Cardinality(Succeeded(name)) = 1
            /\ \A r \in Returned(name) \ Succeeded(name) : regRet[r] = AlreadyDefined(name)
            /\ name \in DOMAIN regMap
            /\ \A r \in Succeeded(name) : regMap[name] = regSvc[r]
C14_EntryKept == \A name \in DOMAIN regMap : name \in DOMAIN regMap' /\ regMap'[name] = regMap[name]
C14_RegisterOncePerName == []C14_OneWinner /\ [][C14_EntryKept]_vars

\* three calls for the name Foo with two different receivers have returned
C14_Witness ==
    /\ Cardinality(Returned(<<"F", "oo">>)) = NRegistrars
    /\ Cardinality({regSvc[r].rcvr.pkg : r \in Registrars}) = 2
    /\ Cardinality(Succeeded(<<"F", "oo">>)) = 1

\* C15: every method registerMethods has put in a service's method table has
\* a pointer type as its reply parameter.
C15_ReplyIsPointer ==
    \A r \in Registrars : \A e \in regSvc[r].method : e.mtype.ReplyType.Kind = "ptr"

----------------------------------------------------------------------------
(* Claims about both ends of a connection, checked under SpecSides *)

BodyReadErrors ==
    {ErrorString(ErrGobDecode), ErrorString(ErrGobUnassignable), ErrorString(ErrRead)}

\* the server has failed to decode the argument body of some request
ArgDecodeFailed ==
    \/ th[Loop].Error \in BodyReadErrors
    \/ \E i \in 1..Len(ServerWritten) :
         ServerWritten[i].kind = "H" /\ ServerWritten[i].Error \in BodyReadErrors

\* the server reads the header of a request
RequestRead == tpc[Loop] = "readHeader" /\ tpc'[Loop] \in {"readBody", "lock"}

\* the client: once a read of receive has failed nothing more is read, receive
\* is on its way out, and it has set shutdown when it exits
ReceiveLeaving == {"done", "terminate", "termLockMu", "termRange", "exited"}
C16_ClientStops ==
    /\ rerr # Nil => rpc \in ReceiveLeaving
    /\ rpc \in {"termRange", "exited"} => shutdown /\ rerr # Nil
C16_ClientReadsNoMore == rerr # Nil => rerr' = rerr /\ Len(rx') >= Len(rx)

\* C16 as stated: after a failed header read or a failed decode of an argument
\* body the server reads no further request; after a failed header or body
\* read the client's receive exits and the client becomes SHUTDOWN.
C16_ServerStopsOnAnyFailure == (srvErr # Nil \/ ArgDecodeFailed) => ~RequestRead
C16_AnyFailureEndsConnection ==
    /\ [][C16_ServerStopsOnAnyFailure]_vars
    /\ []C16_ClientStops /\ [][C16_ClientReadsNoMore]_vars

\* C16, amended: after a failed header read the server reads no further
\* request and leaves the loop; after a failed decode of an argument body it
\* starts no handler, answers the request with an error response that carries
\* the request's Seq and the placeholder body, and goes on reading.  The
\* client is as stated.
C16_ServerLeft ==
    srvErr # Nil => tpc[Loop] \in {"wait", "returned", "connClosed"}
C16_ServerStopsOnHeaderFailure == srvErr # Nil => ~RequestRead /\ Len(sin') >= Len(sin)
C16_ServerAnswersBodyFailure ==
    /\ (tpc[Loop] = "readBody" /\ tpc'[Loop] = "lock") =>
           /\ th'[Loop].Error \in BodyReadErrors
           /\ th'[Loop].Seq = th[Loop].Seq
           /\ tbody'[Loop] = invalidRequest
           /\ spawned' = spawned /\ wg' = wg
    /\ (tpc[Loop] = "unlock" /\ tpc'[Loop] # "unlock") => tpc'[Loop] = "readHeader"
C16_FailureHandling ==
    /\ []C16_ServerLeft
    /\ [][C16_ServerStopsOnHeaderFailure]_vars
    /\ [][C16_ServerAnswersBodyFailure]_vars
    /\ []C16_ClientStops /\ [][C16_ClientReadsNoMore]_vars

\* the server answered a request whose body it could not decode, then served
\* a later request, then failed to read a header and closed
C16_Witness ==
    /\ \E i \in 1..Len(sout) : sout[i].kind = "H" /\ sout[i].Error = ErrorString(ErrGobDecode)
                               /\ \E j \in (i + 1)..Len(sout) :
                                     sout[j].kind = "H" /\ sout[j].Error = EmptyString
    /\ srvErr # Nil
    /\ tpc[Loop] = "connClosed"

====
